---- MODULE Spec2Model ----
(***************************************************************************)
(* Model of the students route of the library-seat management back end     *)
(* (src/Backend/routes/students.js): the create, update, renew and delete  *)
(* handlers, statement by statement, over the tables students,             *)
(* seat_assignments and student_membership_history; and of two components  *)
(* of the front end, the edit-student form (src/unnamed/part_000) and the  *)
(* expired-memberships page (ExpiredMemberships.tsx), event handler by     *)
(* event handler, with the calls of the API answered in any order.         *)
(*                                                                         *)
(* The database is READ COMMITTED: a handler that holds a dedicated        *)
(* connection inside BEGIN..COMMIT keeps its writes in a private write set *)
(* (tx) that is published by COMMIT and dropped by ROLLBACK; a statement   *)
(* sent through pool.query is committed on its own.                        *)
(*                                                                         *)
(* Columns that the handlers only copy through (name, email, phone,        *)
(* address, branch_id, remark, membership_start) are represented by the    *)
(* single request flag "required" (all required fields of the route are    *)
(* present); money is in whole units; dates are day numbers, today is 0.   *)
(* A handler is a sequence of steps, one per group of statements; a        *)
(* statement that throws is a step of its own (TxFail, PoolFail,           *)
(* RenewSeatsFail, RollbackFail, ConnectFail).  The lookups of the         *)
(* validation phase do not throw.                                          *)
(*                                                                         *)
(* Specifications:                                                         *)
(*   Spec            one request at a time, requests vary seat and shifts  *)
(*   SpecMoney       one request at a time, requests vary the money fields *)
(*                   of the first student                                  *)
(*   SpecConcurrent  two requests in flight, interleaved step by step      *)
(*   SpecDates       one request at a time, requests vary membership_end   *)
(*                   and the time of day, first student                    *)
(*   SpecRefs        one request at a time, requests name one seat and     *)
(*                   shift, some of which do not exist                     *)
(*   SpecRace        two requests in flight for the first student, the     *)
(*                   tables before each request recorded                   *)
(*   SpecEditForm    the edit-student form in one browser                  *)
(*   SpecExpiredPage the expired-memberships page in one browser           *)
(***************************************************************************)
EXTENDS Integers, Sequences, FiniteSets, Bags, TLC

\* ------------------------------------------------------------------ bounds
MaxStudents == 2
NumSeats == 1
NumShifts == 2
MaxShiftIds == 2
MaxMoney == 1
MaxHistory == 2
\* changes of fields after the edit form was loaded; calls of one kind (seat
\* fetches, renew calls with their list fetches) the expired-memberships page
\* has in flight at the same time
MaxEdits == 2
MaxFetches == 1

\* ------------------------------------------------------- JavaScript values
Undefined == [t |-> "undefined", n |-> 0, s |-> <<>>]
Null == [t |-> "null", n |-> 0, s |-> <<>>]
Number(n) == [t |-> "number", n |-> n, s |-> <<>>]
String(s) == [t |-> "string", n |-> 0, s |-> s]

NaN == [nan |-> TRUE, v |-> 0]
Num(v) == [nan |-> FALSE, v |-> v]

Digits == <<"0", "1", "2", "3", "4", "5", "6", "7", "8", "9">>
IsDigit(c) == \E d \in 1..10 : Digits[d] = c
DigitVal(c) == (CHOOSE d \in 1..10 : Digits[d] = c) - 1

\* value of the longest prefix of digits of s, acc being the value so far
RECURSIVE ParseDigits(_, _)
ParseDigits(s, acc) ==
  IF s = <<>> \/ ~IsDigit(Head(s)) THEN acc
  ELSE ParseDigits(Tail(s), acc * 10 + DigitVal(Head(s)))

ParseString(s) ==
  IF s = <<>> THEN NaN
  ELSE IF Head(s) = "-"
    THEN IF Len(s) >= 2 /\ IsDigit(s[2]) THEN Num(0 - ParseDigits(Tail(s), 0)) ELSE NaN
    ELSE IF IsDigit(Head(s)) THEN Num(ParseDigits(s, 0)) ELSE NaN

parseFloat(x) ==
  CASE x.t = "number" -> Num(x.n)
    [] x.t = "string" -> ParseString(x.s)
    [] OTHER -> NaN

isNaN(x) == x.nan
Negative(x) == ~x.nan /\ x.v < 0

Truthy(x) ==
  CASE x.t = "number" -> x.n # 0
    [] x.t = "string" -> x.s # <<>>
    [] OTHER -> FALSE

Or(a, b) == IF Truthy(a) THEN a ELSE b

RECURSIVE FormatDigits(_)
FormatDigits(n) ==
  IF n < 10 THEN <<Digits[n + 1]>>
  ELSE FormatDigits(n \div 10) \o <<Digits[(n % 10) + 1]>>

\* a NUMERIC column as the driver hands it to JavaScript: a decimal string
Column(n) == String(IF n < 0 THEN <<"-">> \o FormatDigits(0 - n) ELSE FormatDigits(n))

\* ------------------------------------------------------------------ tables
Ids == 1..MaxStudents
Seats == 1..NumSeats
Schedules == 1..NumShifts
NullId == 0
FirstId == 1
FirstSeat == 1
FirstShift == 1

\* CURRENT_DATE is day 0; /expiring-soon looks SoonDays ahead
Today == 0
SoonDays == 30

\* the membership_end dates requests name: yesterday, today, beyond the horizon
Days == {Today - 1, Today, Today + SoonDays + 1}

NoStudent ==
  [exists |-> FALSE, total_fee |-> 0, amount_paid |-> 0, due_amount |-> 0,
   cash |-> 0, online |-> 0, security_money |-> 0,
   membership_end |-> 0, status |-> "none"]

\* one student_membership_history row.  Of the snapshot it holds, the dates and
\* the status are modelled; the other columns are copies nothing reads back.
HistoryRow(r) == [membership_end |-> r.membership_end, status |-> r.status]

Assignment(seat, shift, student) ==
  [seat_id |-> seat, shift_id |-> shift, student_id |-> student]

\* the rows one insert loop adds: one per element of shifts, in order
RECURSIVE InsertAssignments(_, _, _)
InsertAssignments(seat, shifts, student) ==
  IF shifts = <<>> THEN EmptyBag
  ELSE SetToBag({Assignment(seat, Head(shifts), student)})
         (+) InsertAssignments(seat, Tail(shifts), student)

RowsOf(sa, student) ==
  [r \in {x \in BagToSet(sa) : x.student_id = student} |-> sa[r]]

\* ------------------------------------------------------------------- state
VARIABLES
  students,           \* committed students table: id -> row
  seat_assignments,   \* committed seat_assignments table: a bag of rows
  history,            \* committed student_membership_history: id -> rows by changed_at
  student_id_seq,     \* next value of the students id sequence
  handler,            \* the request handlers in flight, one per slot
  editForm,           \* the state of the EditStudentForm component in a browser
  expiredPage         \* the state of the ExpiredMemberships page in a browser

vars == <<students, seat_assignments, history, student_id_seq, handler, editForm, expiredPage>>
db == <<students, seat_assignments, history, student_id_seq>>
ui == <<editForm, expiredPage>>

Procs == {1, 2}

NoTx ==
  [open |-> FALSE, stu |-> FALSE, row |-> NoStudent,
   saDel |-> EmptyBag, saIns |-> EmptyBag,
   hist |-> "none", hidx |-> 0, hrow |-> HistoryRow(NoStudent)]

NoVals ==
  [total_fee |-> 0, amount_paid |-> 0, due_amount |-> 0, cash |-> 0, online |-> 0,
   security_money |-> 0, status |-> "none", seat |-> NullId, shifts |-> <<>>]

NoBody ==
  [required |-> FALSE, membership_end |-> 0, seat_id |-> Undefined, shift_ids |-> <<>>,
   total_fee |-> Undefined, amount_paid |-> Undefined, cash |-> Undefined,
   online |-> Undefined, security_money |-> Undefined]

NoRes == [status |-> 0, msg |-> ""]
Res(code, msg) == [status |-> code, msg |-> msg]

Snapshot == [students |-> students, seat_assignments |-> seat_assignments, history |-> history]

\* the tables before a request (an observer's record, the handlers do not read
\* it); NoSnapshot where a specification does not keep it
NoSnapshot ==
  [students |-> [i \in Ids |-> NoStudent], seat_assignments |-> EmptyBag,
   history |-> [i \in Ids |-> <<>>]]

\* conn: the dedicated connection of the handler ("none": never taken,
\* "held": taken with pool.connect, "released": given back by client.release);
\* res.status = 0: no response has been sent
Idle ==
  [pc |-> "idle", route |-> "none", id |-> NullId, body |-> NoBody, vals |-> NoVals,
   tx |-> NoTx, updated |-> NoStudent, res |-> NoRes, conn |-> "none", pre |-> NoSnapshot]

Recorded(keep) == IF keep THEN Snapshot ELSE NoSnapshot

\* ---------------------------------------------------- browser components
\* text fields are sequences of characters, '' is <<>>; a date field is 0 for
\* '' and a day number otherwise; a select of shifts holds the shift id as text
NoPayload ==
  [name |-> <<>>, email |-> <<>>, phone |-> <<>>, address |-> <<>>, branchId |-> Null,
   membershipStart |-> 0, membershipEnd |-> 0, totalFee |-> Num(0), amountPaid |-> 0,
   shiftIds |-> <<>>, seatId |-> Null, cash |-> 0, online |-> 0, securityMoney |-> 0]

\* useState<FormData>({...}) of EditStudentForm
InitialForm ==
  [name |-> <<>>, email |-> <<>>, phone |-> <<>>, address |-> <<>>, branchId |-> Null,
   membershipStart |-> 0, membershipEnd |-> 0, shiftId |-> <<>>, seatId |-> Null,
   totalFee |-> <<>>, cash |-> <<>>, online |-> <<>>, securityMoney |-> <<>>]

\* EditStudentForm after its first render.  seats: the shift whose seats are
\* in the seats list, 0 for the empty list; fetching: the getSeats calls in
\* flight, by shift; call: the updateStudent call in flight; at: the route
\* shown; edits counts the changes of fields since the form was loaded
Mounted ==
  [loading |-> TRUE, formData |-> InitialForm, shifts |-> {}, seats |-> 0,
   fetching |-> EmptyBag, loadingSeats |-> FALSE, submitting |-> FALSE,
   pending |-> FALSE, call |-> NoPayload, at |-> "edit", toast |-> "", edits |-> 0]

\* ExpiredMemberships after its first render.  students: the ids of the rows
\* of the list; seatOptions: the shift whose seats are offered, 0 for none;
\* fetching: the getSeats calls in flight, by shift; renewing: the renewStudent
\* calls in flight, by student; refetching: the getExpiredMemberships calls in
\* flight that follow a renew.  The toasts are not part of the state
Opened ==
  [loading |-> TRUE, students |-> {}, shiftOptions |-> {}, renewDialogOpen |-> FALSE,
   selectedStudent |-> NullId, startDate |-> TRUE, endDate |-> TRUE,
   emailInput |-> <<>>, phoneInput |-> <<>>, selectedShift |-> 0, selectedSeat |-> 0,
   totalFee |-> <<>>, seatOptions |-> 0, fetching |-> EmptyBag,
   renewing |-> EmptyBag, refetching |-> 0]

Init ==
  /\ students = [i \in Ids |-> NoStudent]
  /\ seat_assignments = EmptyBag
  /\ history = [i \in Ids |-> <<>>]
  /\ student_id_seq = FirstId
  /\ handler = [p \in Procs |-> Idle]
  /\ editForm = Mounted
  /\ expiredPage = Opened

\* ------------------------------------------- what a connection can see
\* (an UPDATE of a row that was deleted meanwhile does not bring it back)
ViewStudents(h) ==
  IF h.tx.stu /\ (h.route = "create" \/ students[h.id].exists)
    THEN [students EXCEPT ![h.id] = h.tx.row] ELSE students
ViewAssignments(h) == (seat_assignments (-) h.tx.saDel) (+) h.tx.saIns
\* (variant: the UPDATE of the latest history row is an INSERT)
ViewHistoryInsert(h) ==
  CASE h.tx.hist \in {"append", "set"} -> [history EXCEPT ![h.id] = Append(@, h.tx.hrow)]
    [] OTHER -> history

ViewHistory(h) ==
  CASE h.tx.hist = "append" -> [history EXCEPT ![h.id] = Append(@, h.tx.hrow)]
    [] h.tx.hist = "set" /\ h.tx.hidx <= Len(history[h.id]) ->
         [history EXCEPT ![h.id][h.tx.hidx] = h.tx.hrow]
    [] OTHER -> history

\* ------------------------------------------------------- shared fragments
\* seat_id ? parseInt(seat_id, 10) : null   (whole numbers: parseInt = parseFloat)
seatIdNum(body) ==
  IF Truthy(body.seat_id) /\ ~isNaN(parseFloat(body.seat_id))
    THEN parseFloat(body.seat_id).v ELSE NullId

\* shift_ids && Array.isArray(shift_ids) ? shift_ids.map(parseInt) : []
shiftIdsNum(body) == [i \in 1..Len(body.shift_ids) |-> parseFloat(body.shift_ids[i]).v]

HasSeatAndShifts(seat, shifts) == seat # NullId /\ Len(shifts) > 0

\* new Date(membership_end) < new Date(): midnight of the end day against now,
\* now being day 0 at midnight exactly (pastMidnight FALSE) or later in the day
DateStatus(membership_end, pastMidnight) ==
  IF membership_end < 0 \/ (membership_end = 0 /\ pastMidnight) THEN "expired" ELSE "active"

\* (variant: only the first shift of the request is looked up)
ConflictAtFirstShift(sa, seat, shifts, self) ==
  IF \E r \in BagToSet(sa) : /\ r.seat_id = seat
                              /\ r.shift_id = shifts[1]
                              /\ (self = NullId \/ r.student_id # self)
    THEN 1 ELSE 0

\* the first shift whose (seat, shift) pair is held by a row of sa other than
\* those of student self (self = NullId: any row), 0 if none
ConflictAt(sa, seat, shifts, self) ==
  LET hit == {i \in 1..Len(shifts) :
                \E r \in BagToSet(sa) : /\ r.seat_id = seat
                                        /\ r.shift_id = shifts[i]
                                        /\ (self = NullId \/ r.student_id # self)}
  IN IF hit = {} THEN 0 ELSE CHOOSE i \in hit : \A j \in hit : i <= j

\* (variant: a pair named by a request still in flight counts as assigned)
SeatShiftErrorInFlight(sa, seat, shifts, self) ==
  IF ~HasSeatAndShifts(seat, shifts) THEN ""
  ELSE IF seat \notin Seats THEN "seat"
  ELSE IF \E i \in 1..Len(shifts) : shifts[i] \notin Schedules THEN "shift"
  ELSE IF ConflictAt(sa, seat, shifts, self) # 0 THEN "assigned"
  ELSE IF \E q \in Procs : /\ handler[q].pc \notin {"idle", "done"}
                            /\ handler[q].vals.seat = seat
                            /\ \E i \in 1..Len(shifts), j \in 1..Len(handler[q].vals.shifts) :
                                 shifts[i] = handler[q].vals.shifts[j]
    THEN "assigned"
  ELSE ""

\* seat exists, every shift exists, no pair already assigned; "" when all pass
SeatShiftError(sa, seat, shifts, self) ==
  IF ~HasSeatAndShifts(seat, shifts) THEN ""
  ELSE IF seat \notin Seats THEN "seat"
  ELSE IF \E i \in 1..Len(shifts) : shifts[i] \notin Schedules THEN "shift"
  ELSE IF ConflictAt(sa, seat, shifts, self) # 0 THEN "assigned"
  ELSE ""

\* (variant: negative values pass)
InvalidNaNOnly(x) == isNaN(x)

Invalid(x) == isNaN(x) \/ Negative(x)

\* the first monetary value that is NaN or negative, "" when all are valid
MoneyError(fee, paid, cash, online, security) ==
  IF Invalid(fee) THEN "total_fee"
  ELSE IF Invalid(paid) THEN "amount_paid"
  ELSE IF Invalid(cash) THEN "cash"
  ELSE IF Invalid(online) THEN "online"
  ELSE IF Invalid(security) THEN "security_money"
  ELSE ""

InFlight(h) == h.pc \notin {"idle", "done"}
Free(h) == h.pc = "idle"

\* the handler's connection after the finally block
Released(h) == IF h.conn = "held" THEN "released" ELSE h.conn

\* res.status(code).json(...), and the handler runs to its end (finally)
Respond(h, code, msg) ==
  [h EXCEPT !.pc = "done", !.tx = NoTx, !.res = Res(code, msg), !.conn = Released(h)]

\* ------------------------------------------------------- POST /students
CreateFee(body) == parseFloat(Or(body.total_fee, Number(0)))
CreatePaid(body) == parseFloat(Or(body.amount_paid, Number(0)))
CreateOptional(x) == IF x # Undefined THEN parseFloat(x) ELSE Num(0)

\* (variant: the seat/shift validation is left out)
CreateErrorMoneyOnly(body, sa) ==
  IF ~body.required THEN "required"
  ELSE MoneyError(CreateFee(body), CreatePaid(body), CreateOptional(body.cash),
                  CreateOptional(body.online), CreateOptional(body.security_money))

CreateError(body, sa) ==
  IF ~body.required THEN "required"
  ELSE LET m == MoneyError(CreateFee(body), CreatePaid(body), CreateOptional(body.cash),
                          CreateOptional(body.online), CreateOptional(body.security_money))
       IN IF m # "" THEN m
          ELSE SeatShiftError(sa, seatIdNum(body), shiftIdsNum(body), NullId)

\* (variant: the due amount is floored at zero)
CreateValsFloored(body, pastMidnight) ==
  [total_fee |-> CreateFee(body).v, amount_paid |-> CreatePaid(body).v,
   due_amount |-> IF CreateFee(body).v < CreatePaid(body).v THEN 0
                  ELSE CreateFee(body).v - CreatePaid(body).v,
   cash |-> CreateOptional(body.cash).v, online |-> CreateOptional(body.online).v,
   security_money |-> CreateOptional(body.security_money).v,
   status |-> DateStatus(body.membership_end, pastMidnight),
   seat |-> seatIdNum(body), shifts |-> shiftIdsNum(body)]

CreateVals(body, pastMidnight) ==
  [total_fee |-> CreateFee(body).v, amount_paid |-> CreatePaid(body).v,
   due_amount |-> CreateFee(body).v - CreatePaid(body).v,
   cash |-> CreateOptional(body.cash).v, online |-> CreateOptional(body.online).v,
   security_money |-> CreateOptional(body.security_money).v,
   status |-> DateStatus(body.membership_end, pastMidnight),
   seat |-> seatIdNum(body), shifts |-> shiftIdsNum(body)]

StudentRow(v, membership_end) ==
  [exists |-> TRUE, total_fee |-> v.total_fee, amount_paid |-> v.amount_paid,
   due_amount |-> v.due_amount, cash |-> v.cash, online |-> v.online,
   security_money |-> v.security_money, membership_end |-> membership_end,
   status |-> v.status]

\* ids the sequence still has to hand out to creates that have begun
PendingCreates == Cardinality({q \in Procs : handler[q].pc = "c_student"})

\* pool.connect, BEGIN, validation of the body, seat/shift checks
\* (last: the last id the id sequence hands out)
CreateBegin(p, last, bodies, clocks, keep) ==
  /\ Free(handler[p])
  /\ student_id_seq + PendingCreates <= last
  /\ \E body \in bodies, pastMidnight \in clocks :
       LET h == [Idle EXCEPT !.route = "create", !.body = body, !.pre = Recorded(keep),
                             !.conn = "held", !.tx = [NoTx EXCEPT !.open = TRUE]]
           err == CreateError(body, ViewAssignments(h))
       IN handler' = [handler EXCEPT ![p] =
            IF err # "" THEN Respond(h, 400, err)
            ELSE [h EXCEPT !.pc = "c_student", !.vals = CreateVals(body, pastMidnight)]]
  /\ UNCHANGED <<db, ui>>

\* (variant: the INSERT goes through the pool, outside the transaction)
CreateInsertStudentPool(p) ==
  LET h == handler[p] IN
  /\ h.pc = "c_student"
  /\ student_id_seq' = student_id_seq + 1
  /\ students' = [students EXCEPT ![student_id_seq] = StudentRow(h.vals, h.body.membership_end)]
  /\ handler' = [handler EXCEPT ![p] =
       [h EXCEPT !.pc = "c_seats", !.id = student_id_seq,
                 !.tx.stu = TRUE, !.tx.row = StudentRow(h.vals, h.body.membership_end)]]
  /\ UNCHANGED <<ui, seat_assignments, history>>

\* INSERT INTO students ... RETURNING *
CreateInsertStudent(p) ==
  LET h == handler[p] IN
  /\ h.pc = "c_student"
  /\ student_id_seq' = student_id_seq + 1
  /\ handler' = [handler EXCEPT ![p] =
       [h EXCEPT !.pc = "c_seats", !.id = student_id_seq,
                 !.tx.stu = TRUE, !.tx.row = StudentRow(h.vals, h.body.membership_end)]]
  /\ UNCHANGED <<ui, students, seat_assignments, history>>

\* one INSERT INTO seat_assignments per shift
CreateInsertSeats(p) ==
  LET h == handler[p]
      given == HasSeatAndShifts(h.vals.seat, h.vals.shifts) IN
  /\ h.pc = "c_seats"
  /\ handler' = [handler EXCEPT ![p] =
       [h EXCEPT !.pc = "c_history",
                 !.tx.saIns = IF given THEN InsertAssignments(h.vals.seat, h.vals.shifts, h.id)
                              ELSE EmptyBag]]
  /\ UNCHANGED <<db, ui>>

\* INSERT INTO student_membership_history
CreateInsertHistory(p) ==
  LET h == handler[p] IN
  /\ h.pc = "c_history"
  /\ handler' = [handler EXCEPT ![p] =
       [h EXCEPT !.pc = "c_commit", !.tx.hist = "append",
                 !.tx.hrow = HistoryRow(h.tx.row)]]
  /\ UNCHANGED <<db, ui>>

\* COMMIT publishes the write set of the connection
Commit(h) ==
  /\ students' = ViewStudents(h)
  /\ seat_assignments' = ViewAssignments(h)
  /\ history' = ViewHistory(h)

CreateCommit(p) ==
  LET h == handler[p] IN
  /\ h.pc = "c_commit"
  /\ Commit(h)
  /\ handler' = [handler EXCEPT ![p] = Respond(h, 201, "")]
  /\ UNCHANGED <<student_id_seq, ui>>

\* a statement of a BEGIN..COMMIT handler throws: catch, ROLLBACK, 500
TxPcs == {"c_student", "c_seats", "c_history", "c_commit",
          "u_student", "u_seats", "u_history", "u_commit"}

TxFail(p) ==
  LET h == handler[p] IN
  /\ h.pc \in TxPcs
  /\ handler' = [handler EXCEPT ![p] = Respond(h, 500, "server")]
  /\ UNCHANGED <<db, ui>>

\* what becomes of a request whose async handler rejects: Express 4 leaves it
\* unanswered, Express 5 hands the error to the default handler, which sends 500
Unhandled == {NoRes, Res(500, "server")}

\* pool.connect() rejects: it is called before the try block
ConnectFail(p, keep) ==
  /\ Free(handler[p])
  /\ \E route \in {"create", "update"}, r \in Unhandled :
       handler' = [handler EXCEPT ![p] =
         [Idle EXCEPT !.pc = "done", !.route = route, !.res = r, !.pre = Recorded(keep)]]
  /\ UNCHANGED <<db, ui>>

\* a statement throws and the ROLLBACK of the catch block throws as well: the
\* finally block releases the connection, the handler rejects; the server
\* aborts the transaction of the broken connection
RollbackFail(p) ==
  LET h == handler[p] IN
  /\ h.pc \in TxPcs
  /\ \E r \in Unhandled :
       handler' = [handler EXCEPT ![p] = Respond(h, r.status, r.msg)]
  /\ UNCHANGED <<db, ui>>

\* ----------------------------------------------------- PUT /students/:id
Omitted(x) == x = Undefined \/ x = Null \/ x = String(<<>>)

\* (variant: an omitted field is taken as 0)
UpdateMoneyDefaultZero(x, current) ==
  IF ~Omitted(x) THEN parseFloat(x) ELSE Num(0)

\* the field of the body, or the stored column when the body omits it
UpdateMoney(x, current) ==
  IF ~Omitted(x) THEN parseFloat(x) ELSE parseFloat(Or(Column(current), Number(0)))

UpdateMoneyError(body, cur) ==
  MoneyError(UpdateMoney(body.total_fee, cur.total_fee),
             UpdateMoney(body.amount_paid, cur.amount_paid),
             UpdateMoney(body.cash, cur.cash),
             UpdateMoney(body.online, cur.online),
             UpdateMoney(body.security_money, cur.security_money))

UpdateVals(body, cur, pastMidnight) ==
  [total_fee |-> UpdateMoney(body.total_fee, cur.total_fee).v,
   amount_paid |-> UpdateMoney(body.amount_paid, cur.amount_paid).v,
   due_amount |-> UpdateMoney(body.total_fee, cur.total_fee).v
                    - UpdateMoney(body.amount_paid, cur.amount_paid).v,
   cash |-> UpdateMoney(body.cash, cur.cash).v,
   online |-> UpdateMoney(body.online, cur.online).v,
   security_money |-> UpdateMoney(body.security_money, cur.security_money).v,
   status |-> DateStatus(body.membership_end, pastMidnight),
   seat |-> seatIdNum(body), shifts |-> shiftIdsNum(body)]

\* (variant: the conflict check does not exclude the student's own rows, as on
\* create)
UpdateBeginNoSelf(p, ids, bodies, clocks, keep) ==
  /\ Free(handler[p])
  /\ \E id \in ids, body \in bodies, pastMidnight \in clocks :
       LET h == [Idle EXCEPT !.route = "update", !.id = id, !.body = body,
                             !.pre = Recorded(keep), !.conn = "held",
                             !.tx = [NoTx EXCEPT !.open = TRUE]]
           cur == students[id]
           money == UpdateMoneyError(body, cur)
           seat == SeatShiftError(ViewAssignments(h), seatIdNum(body), shiftIdsNum(body), NullId)
       IN handler' = [handler EXCEPT ![p] =
            IF ~body.required THEN Respond(h, 400, "required")
            ELSE IF ~cur.exists THEN Respond(h, 404, "student")
            ELSE IF money # "" THEN Respond(h, 400, money)
            ELSE IF seat # "" THEN Respond(h, 400, seat)
            ELSE [h EXCEPT !.pc = "u_student", !.vals = UpdateVals(body, cur, pastMidnight)]]
  /\ UNCHANGED <<db, ui>>

\* pool.connect, BEGIN, validation, SELECT of the current row, seat/shift checks
UpdateBegin(p, ids, bodies, clocks, keep) ==
  /\ Free(handler[p])
  /\ \E id \in ids, body \in bodies, pastMidnight \in clocks :
       LET h == [Idle EXCEPT !.route = "update", !.id = id, !.body = body,
                             !.pre = Recorded(keep), !.conn = "held",
                             !.tx = [NoTx EXCEPT !.open = TRUE]]
           cur == students[id]
           money == UpdateMoneyError(body, cur)
           seat == SeatShiftError(ViewAssignments(h), seatIdNum(body), shiftIdsNum(body), id)
       IN handler' = [handler EXCEPT ![p] =
            IF ~body.required THEN Respond(h, 400, "required")
            ELSE IF ~cur.exists THEN Respond(h, 404, "student")
            ELSE IF money # "" THEN Respond(h, 400, money)
            ELSE IF seat # "" THEN Respond(h, 400, seat)
            ELSE [h EXCEPT !.pc = "u_student", !.vals = UpdateVals(body, cur, pastMidnight)]]
  /\ UNCHANGED <<db, ui>>

\* UPDATE students SET ... WHERE id = $16 RETURNING *
UpdateStudent(p) ==
  LET h == handler[p] IN
  /\ h.pc = "u_student"
  /\ handler' = [handler EXCEPT ![p] =
       IF ~students[h.id].exists THEN Respond(h, 404, "student")
       ELSE [h EXCEPT !.pc = "u_seats", !.tx.stu = TRUE,
                      !.tx.row = StudentRow(h.vals, h.body.membership_end)]]
  /\ UNCHANGED <<db, ui>>

\* (variant: the student's rows are not deleted before the inserts)
UpdateSeatsKeep(p) ==
  LET h == handler[p]
      given == HasSeatAndShifts(h.vals.seat, h.vals.shifts) IN
  /\ h.pc = "u_seats"
  /\ handler' = [handler EXCEPT ![p] =
       [h EXCEPT !.pc = "u_history",
                 !.tx.saIns = IF given THEN InsertAssignments(h.vals.seat, h.vals.shifts, h.id)
                              ELSE EmptyBag]]
  /\ UNCHANGED <<db, ui>>

\* DELETE FROM seat_assignments WHERE student_id = id, then the inserts if given
UpdateSeats(p) ==
  LET h == handler[p]
      given == HasSeatAndShifts(h.vals.seat, h.vals.shifts) IN
  /\ h.pc = "u_seats"
  /\ handler' = [handler EXCEPT ![p] =
       [h EXCEPT !.pc = "u_history",
                 !.tx.saDel = RowsOf(seat_assignments, h.id),
                 !.tx.saIns = IF given THEN InsertAssignments(h.vals.seat, h.vals.shifts, h.id)
                              ELSE EmptyBag]]
  /\ UNCHANGED <<db, ui>>

\* (variant: the 404 is sent without ROLLBACK, the writes made so far stay)
UpdateHistoryNoRollback(p) ==
  LET h == handler[p]
      rows == ViewHistory(h)[h.id] IN
  /\ h.pc = "u_history"
  /\ IF rows = <<>>
       THEN /\ Commit(h)
            /\ handler' = [handler EXCEPT ![p] = Respond(h, 404, "history")]
       ELSE /\ UNCHANGED <<students, seat_assignments, history>>
            /\ handler' = [handler EXCEPT ![p] =
                 [h EXCEPT !.pc = "u_commit", !.tx.hist = "set", !.tx.hidx = Len(rows),
                           !.tx.hrow = HistoryRow(StudentRow(h.vals, h.body.membership_end))]]
  /\ UNCHANGED <<student_id_seq, ui>>

\* SELECT the latest history row, 404 if none, else UPDATE it in place
UpdateHistory(p) ==
  LET h == handler[p]
      rows == ViewHistory(h)[h.id] IN
  /\ h.pc = "u_history"
  /\ handler' = [handler EXCEPT ![p] =
       IF rows = <<>> THEN Respond(h, 404, "history")
       ELSE [h EXCEPT !.pc = "u_commit", !.tx.hist = "set", !.tx.hidx = Len(rows),
                      !.tx.hrow = HistoryRow(StudentRow(h.vals, h.body.membership_end))]]
  /\ UNCHANGED <<db, ui>>

UpdateCommit(p) ==
  LET h == handler[p] IN
  /\ h.pc = "u_commit"
  /\ Commit(h)
  /\ handler' = [handler EXCEPT ![p] = Respond(h, 200, "")]
  /\ UNCHANGED <<student_id_seq, ui>>

\* ----------------------------------------------- POST /students/:id/renew
RenewFee(body, old) ==
  parseFloat(Or(Or(body.total_fee, Column(old.total_fee)), Number(0)))
RenewSecurity(body, old) ==
  parseFloat(Or(Or(body.security_money, Column(old.security_money)), Number(0)))
RenewPayment(x) == parseFloat(Or(x, Number(0)))

RenewError(body, old) ==
  IF Invalid(RenewFee(body, old)) THEN "total_fee"
  ELSE IF Invalid(RenewPayment(body.cash)) THEN "cash"
  ELSE IF Invalid(RenewPayment(body.online)) THEN "online"
  ELSE IF Invalid(RenewSecurity(body, old)) THEN "security_money"
  ELSE ""

\* (variant: the status is derived from membership_end as on create and update)
RenewValsDated(body, old) ==
  [total_fee |-> RenewFee(body, old).v,
   amount_paid |-> RenewPayment(body.cash).v + RenewPayment(body.online).v,
   due_amount |-> RenewFee(body, old).v
                    - (RenewPayment(body.cash).v + RenewPayment(body.online).v),
   cash |-> RenewPayment(body.cash).v, online |-> RenewPayment(body.online).v,
   security_money |-> RenewSecurity(body, old).v,
   status |-> DateStatus(body.membership_end, TRUE),
   seat |-> seatIdNum(body), shifts |-> shiftIdsNum(body)]

RenewVals(body, old) ==
  [total_fee |-> RenewFee(body, old).v,
   amount_paid |-> RenewPayment(body.cash).v + RenewPayment(body.online).v,
   due_amount |-> RenewFee(body, old).v
                    - (RenewPayment(body.cash).v + RenewPayment(body.online).v),
   cash |-> RenewPayment(body.cash).v, online |-> RenewPayment(body.online).v,
   security_money |-> RenewSecurity(body, old).v,
   status |-> "active",
   seat |-> seatIdNum(body), shifts |-> shiftIdsNum(body)]

\* history rows the renews in flight for student id are still going to append
PendingRenews(id) ==
  Cardinality({q \in Procs : /\ handler[q].route = "renew" /\ handler[q].id = id
                             /\ InFlight(handler[q])})

\* validation, SELECT * FROM students, conflict check (no BEGIN, no seat/shift lookup)
RenewBegin(p, ids, bodies, keep) ==
  /\ Free(handler[p])
  /\ \E id \in ids, body \in bodies :
       LET h == [Idle EXCEPT !.route = "renew", !.id = id, !.body = body, !.pre = Recorded(keep)]
           old == students[id]
           money == RenewError(body, old)
           seat == seatIdNum(body)
           shifts == shiftIdsNum(body)
       IN /\ Len(history[id]) + PendingRenews(id) < MaxHistory
          /\ handler' = [handler EXCEPT ![p] =
               IF ~body.required THEN Respond(h, 400, "required")
               ELSE IF ~old.exists THEN Respond(h, 404, "student")
               ELSE IF money # "" THEN Respond(h, 400, money)
               ELSE IF HasSeatAndShifts(seat, shifts)
                         /\ ConflictAt(seat_assignments, seat, shifts, id) # 0
                 THEN Respond(h, 400, "assigned")
               ELSE [h EXCEPT !.pc = "r_student", !.vals = RenewVals(body, old)]]
  /\ UNCHANGED <<db, ui>>

\* (variant: the UPDATE leaves the cash and online columns as they are)
RenewStudentKeepPayments(p) ==
  LET h == handler[p]
      row == [StudentRow(h.vals, h.body.membership_end) EXCEPT
                !.cash = students[h.id].cash, !.online = students[h.id].online] IN
  /\ h.pc = "r_student"
  /\ IF students[h.id].exists
       THEN /\ students' = [students EXCEPT ![h.id] = row]
            /\ handler' = [handler EXCEPT ![p] = [h EXCEPT !.pc = "r_seats", !.updated = row]]
       ELSE /\ students' = students
            /\ handler' = [handler EXCEPT ![p] = [h EXCEPT !.pc = "r_seats"]]
  /\ UNCHANGED <<ui, seat_assignments, history, student_id_seq>>

\* UPDATE students SET ..., status = 'active', ... WHERE id = $13 RETURNING *
RenewStudent(p) ==
  LET h == handler[p]
      row == StudentRow(h.vals, h.body.membership_end) IN
  /\ h.pc = "r_student"
  /\ IF students[h.id].exists
       THEN /\ students' = [students EXCEPT ![h.id] = row]
            /\ handler' = [handler EXCEPT ![p] = [h EXCEPT !.pc = "r_seats", !.updated = row]]
       ELSE /\ students' = students
            /\ handler' = [handler EXCEPT ![p] = [h EXCEPT !.pc = "r_seats"]]
  /\ UNCHANGED <<ui, seat_assignments, history, student_id_seq>>

\* if seat and shifts are given: DELETE the student's rows, INSERT one per shift
RenewSeats(p) ==
  LET h == handler[p]
      given == HasSeatAndShifts(h.vals.seat, h.vals.shifts) IN
  /\ h.pc = "r_seats"
  /\ seat_assignments' =
       IF given
         THEN (seat_assignments (-) RowsOf(seat_assignments, h.id))
                (+) InsertAssignments(h.vals.seat, h.vals.shifts, h.id)
         ELSE seat_assignments
  /\ handler' = [handler EXCEPT ![p] =
       [h EXCEPT !.pc = "r_history"]]
  /\ UNCHANGED <<ui, students, history, student_id_seq>>

\* the DELETE throws (k = -1), or the insert after the first k inserts throws
RenewSeatsFail(p) ==
  LET h == handler[p] IN
  /\ h.pc = "r_seats"
  /\ HasSeatAndShifts(h.vals.seat, h.vals.shifts)
  /\ \E k \in (0 - 1)..(Len(h.vals.shifts) - 1) :
       seat_assignments' =
         IF k < 0 THEN seat_assignments
         ELSE (seat_assignments (-) RowsOf(seat_assignments, h.id))
                (+) InsertAssignments(h.vals.seat, SubSeq(h.vals.shifts, 1, k), h.id)
  /\ handler' = [handler EXCEPT ![p] = Respond(h, 500, "server")]
  /\ UNCHANGED <<ui, students, history, student_id_seq>>

\* (variant: the latest history row is overwritten, as update does)
RenewHistoryInPlace(p) ==
  LET h == handler[p] IN
  /\ h.pc = "r_history"
  /\ IF h.updated.exists
       THEN /\ history' = [history EXCEPT ![h.id] =
                             IF @ = <<>> THEN <<HistoryRow(h.updated)>>
                             ELSE [@ EXCEPT ![Len(@)] = HistoryRow(h.updated)]]
            /\ handler' = [handler EXCEPT ![p] = Respond(h, 200, "")]
       ELSE /\ history' = history
            /\ handler' = [handler EXCEPT ![p] = Respond(h, 500, "server")]
  /\ UNCHANGED <<ui, students, seat_assignments, student_id_seq>>

\* INSERT INTO student_membership_history from the row the UPDATE returned;
\* reading updated.id of a missing row throws
RenewHistory(p) ==
  LET h == handler[p] IN
  /\ h.pc = "r_history"
  /\ IF h.updated.exists
       THEN /\ history' = [history EXCEPT ![h.id] =
                             Append(@, HistoryRow(h.updated))]
            /\ handler' = [handler EXCEPT ![p] = Respond(h, 200, "")]
       ELSE /\ history' = history
            /\ handler' = [handler EXCEPT ![p] = Respond(h, 500, "server")]
  /\ UNCHANGED <<ui, students, seat_assignments, student_id_seq>>

\* -------------------------------------------------- DELETE /students/:id
\* (variant: the DELETE has no WHERE clause)
DeleteAssignmentsAll(p, ids, keep) ==
  /\ Free(handler[p])
  /\ \E id \in ids :
       /\ handler' = [handler EXCEPT ![p] =
            [Idle EXCEPT !.route = "delete", !.id = id, !.pre = Recorded(keep), !.pc = "d_history"]]
       /\ seat_assignments' = EmptyBag
  /\ UNCHANGED <<ui, students, history, student_id_seq>>

\* DELETE FROM seat_assignments WHERE student_id = id
DeleteAssignments(p, ids, keep) ==
  /\ Free(handler[p])
  /\ \E id \in ids :
       /\ handler' = [handler EXCEPT ![p] =
            [Idle EXCEPT !.route = "delete", !.id = id, !.pre = Recorded(keep), !.pc = "d_history"]]
       /\ seat_assignments' = seat_assignments (-) RowsOf(seat_assignments, id)
  /\ UNCHANGED <<ui, students, history, student_id_seq>>

\* (variant: the history rows are left in place)
DeleteHistorySkipped(p) ==
  LET h == handler[p] IN
  /\ h.pc = "d_history"
  /\ handler' = [handler EXCEPT ![p] = [h EXCEPT !.pc = "d_student"]]
  /\ UNCHANGED <<db, ui>>

\* DELETE FROM student_membership_history WHERE student_id = id
DeleteHistory(p) ==
  LET h == handler[p] IN
  /\ h.pc = "d_history"
  /\ history' = [history EXCEPT ![h.id] = <<>>]
  /\ handler' = [handler EXCEPT ![p] = [h EXCEPT !.pc = "d_student"]]
  /\ UNCHANGED <<ui, students, seat_assignments, student_id_seq>>

\* DELETE FROM students WHERE id = id RETURNING *: 404 when no row came back
DeleteStudent(p) ==
  LET h == handler[p] IN
  /\ h.pc = "d_student"
  /\ students' = [students EXCEPT ![h.id] = NoStudent]
  /\ handler' = [handler EXCEPT ![p] =
       IF students[h.id].exists THEN Respond(h, 200, "") ELSE Respond(h, 404, "student")]
  /\ UNCHANGED <<ui, seat_assignments, history, student_id_seq>>

\* ----------------------------------------------------- GET /students/:id
\* SELECT s.*, ... FROM students s WHERE s.id = id: 404 when no row came back
GetStudent(p, ids, keep) ==
  /\ Free(handler[p])
  /\ \E id \in ids :
       LET h == [Idle EXCEPT !.route = "get", !.id = id, !.pre = Recorded(keep)]
       IN handler' = [handler EXCEPT ![p] =
            IF ~students[id].exists THEN Respond(h, 404, "student")
            ELSE [h EXCEPT !.pc = "g_assignments"]]
  /\ UNCHANGED <<db, ui>>

\* SELECT ... FROM seat_assignments sa WHERE sa.student_id = id, then res.json
GetAssignments(p) ==
  LET h == handler[p] IN
  /\ h.pc = "g_assignments"
  /\ handler' = [handler EXCEPT ![p] = Respond(h, 200, "")]
  /\ UNCHANGED <<db, ui>>

\* ------------------------------------------------------- the list endpoints
\* (variant: the stored status column is reported)
StoredStatus(s) == [membership_end |-> s.membership_end, status |-> s.status]

\* CASE WHEN s.membership_end < CURRENT_DATE THEN 'expired' ELSE 'active' END;
\* the computed column replaces the stored status of s.* in the row object
withCalculatedStatus(s) ==
  [membership_end |-> s.membership_end,
   status |-> IF s.membership_end < Today THEN "expired" ELSE "active"]

\* the rows a list query returns for the students ids
Listed(ids) ==
  {[id |-> i, row |-> withCalculatedStatus(students[i])] : i \in ids}

\* GET /students/active: WHERE s.membership_end >= CURRENT_DATE
ActiveRow(s) == s.membership_end >= Today
GetActive == Listed({i \in Ids : students[i].exists /\ ActiveRow(students[i])})

\* GET /students/expired: WHERE s.membership_end < CURRENT_DATE
ExpiredRow(s) == s.membership_end < Today
GetExpired == Listed({i \in Ids : students[i].exists /\ ExpiredRow(students[i])})

\* GET /students/expiring-soon: ... >= CURRENT_DATE AND s.membership_end <= $1
ExpiringSoonRow(s) == s.membership_end >= Today /\ s.membership_end <= Today + SoonDays
GetExpiringSoon ==
  Listed({i \in Ids : students[i].exists /\ ExpiringSoonRow(students[i])})

\* the handler has answered and returns (finally: client.release() where a
\* connection was taken); its slot serves the next request
Return(p) ==
  /\ handler[p].pc = "done"
  /\ handler' = [handler EXCEPT ![p] = Idle]
  /\ UNCHANGED <<db, ui>>

\* a statement sent through pool.query throws: catch, 500, nothing to roll back
PoolPcs == {"r_student", "r_history", "d_history", "d_student", "g_assignments"}

PoolFail(p) ==
  LET h == handler[p] IN
  /\ h.pc \in PoolPcs
  /\ handler' = [handler EXCEPT ![p] = Respond(h, 500, "server")]
  /\ UNCHANGED <<db, ui>>

\* ------------------------------------------------------- EditStudentForm
\* String.prototype.trim over the blank " "
RECURSIVE TrimStart(_)
TrimStart(s) == IF s # <<>> /\ Head(s) = " " THEN TrimStart(Tail(s)) ELSE s
RECURSIVE TrimEnd(_)
TrimEnd(s) ==
  IF s # <<>> /\ s[Len(s)] = " " THEN TrimEnd(SubSeq(s, 1, Len(s) - 1)) ELSE s
Trim(s) == TrimEnd(TrimStart(s))

\* /^[^\s@]+@[^\s@]+\.[^\s@]+$/.test(email)
validateEmail(email) ==
  \E i \in 1..Len(email), j \in 1..Len(email) :
    /\ email[i] = "@" /\ 1 < i
    /\ email[j] = "." /\ i + 1 < j /\ j < Len(email)
    /\ \A k \in 1..Len(email) : (k # i => email[k] # "@") /\ email[k] # " "

\* parseInt(text, 10), and number || 0
parseInt(s) == ParseString(s)
OrZero(x) == IF x.nan \/ x.v = 0 THEN 0 ELSE x.v

\* the fetchSeats effect, run when formData.shiftId or formData.seatId changed
\* from old to data: a getSeats call starts, or the list is emptied
FetchSeats(f, old, data) ==
  LET shiftId == parseInt(data.shiftId) IN
  IF old.shiftId = data.shiftId /\ old.seatId = data.seatId THEN f
  ELSE IF ~shiftId.nan /\ shiftId.v # 0
    THEN [f EXCEPT !.loadingSeats = TRUE,
                   !.fetching = @ (+) SetToBag({shiftId.v})]
    ELSE [f EXCEPT !.seats = 0]

\* what getStudent can answer for the form: a complete student, with or
\* without an assignment
CompleteForm ==
  [name |-> <<"a">>, email |-> <<"a", "@", "b", ".", "c">>, phone |-> <<"1">>,
   address |-> <<"a">>, branchId |-> Number(1), membershipStart |-> 1,
   membershipEnd |-> 2, shiftId |-> FormatDigits(FirstShift), seatId |-> Number(FirstSeat),
   totalFee |-> <<"1">>, cash |-> <<"1">>, online |-> <<>>, securityMoney |-> <<"0">>]
LoadedForms ==
  {CompleteForm, [CompleteForm EXCEPT !.shiftId = <<>>, !.seatId = Null]}

\* the effect of [studentId]: getStudent, getSchedules and getBranches answered
FormLoaded ==
  /\ editForm.loading
  /\ \E data \in LoadedForms :
       editForm' = FetchSeats([editForm EXCEPT !.loading = FALSE, !.formData = data,
                                               !.shifts = Schedules],
                              editForm.formData, data)
  /\ UNCHANGED <<db, handler, expiredPage>>

\* one of the three calls failed
FormLoadFailed ==
  /\ editForm.loading
  /\ editForm' = [editForm EXCEPT !.loading = FALSE, !.toast = "load"]
  /\ UNCHANGED <<db, handler, expiredPage>>

\* the values the controls of the form can hand to a change handler: texts,
\* days, the options of the selects, amounts as typed
FieldValues(f, field) ==
  CASE field \in {"name", "phone", "address"} -> {<<>>, <<" ">>, <<"a">>}
    [] field = "email" ->
         {<<>>, <<"a">>, <<"a", "@", "b">>, <<"a", "@", ".", "c">>,
          <<"a", " ", "@", "b", ".", "c">>, <<"a", "@", "b", ".", "c">>}
    [] field = "branchId" -> {Null, Number(1)}
    [] field \in {"membershipStart", "membershipEnd"} -> {0, 1, 2}
    [] field = "shiftId" -> {<<>>} \cup {FormatDigits(n) : n \in f.shifts}
    [] field = "seatId" ->
         IF f.loadingSeats THEN {}
         ELSE {Null} \cup (IF f.seats = 0 THEN {} ELSE {Number(n) : n \in Seats})
    [] OTHER -> {<<>>, <<"a">>, <<"-", "1">>, <<"0">>, <<"1">>}

\* handleChange and the inline onChange handlers, followed by the effect
HandleChange ==
  /\ ~editForm.loading /\ editForm.at = "edit" /\ editForm.edits < MaxEdits
  /\ \E field \in DOMAIN InitialForm :
       \E value \in FieldValues(editForm, field) \ {editForm.formData[field]} :
         LET data == [editForm.formData EXCEPT ![field] = value] IN
         editForm' = FetchSeats([editForm EXCEPT !.formData = data, !.edits = @ + 1],
                                editForm.formData, data)
  /\ UNCHANGED <<db, handler, expiredPage>>

\* getSeats answered: setSeats(filtered seats of that shift)
SeatsFetched ==
  /\ \E shift \in BagToSet(editForm.fetching) :
       editForm' = [editForm EXCEPT !.fetching = @ (-) SetToBag({shift}),
                                    !.seats = shift, !.loadingSeats = FALSE]
  /\ UNCHANGED <<db, handler, expiredPage>>

\* getSeats failed: the list stays as it is
SeatsFetchFailed ==
  /\ \E shift \in BagToSet(editForm.fetching) :
       editForm' = [editForm EXCEPT !.fetching = @ (-) SetToBag({shift}),
                                    !.loadingSeats = FALSE, !.toast = "seats"]
  /\ UNCHANGED <<db, handler, expiredPage>>

\* the values handleSubmit computes from the form
TotalFeeValue(data) == ParseString(data.totalFee)
CashValue(data) == OrZero(ParseString(data.cash))
OnlineValue(data) == OrZero(ParseString(data.online))
SecurityMoneyValue(data) == OrZero(ParseString(data.securityMoney))
SubmitShift(data) == IF data.shiftId # <<>> THEN parseInt(data.shiftId) ELSE NaN

\* (variant: a membership that starts and ends on the same day is let through)
SubmitErrorSameDay(data, shifts) ==
  IF Trim(data.name) = <<>> THEN "name"
  ELSE IF Trim(data.email) = <<>> THEN "email"
  ELSE IF ~validateEmail(data.email) THEN "email format"
  ELSE IF Trim(data.phone) = <<>> THEN "phone"
  ELSE IF Trim(data.address) = <<>> THEN "address"
  ELSE IF ~Truthy(data.branchId) THEN "branch"
  ELSE IF data.membershipStart = 0 \/ data.membershipEnd = 0 THEN "dates"
  ELSE IF data.membershipStart > data.membershipEnd THEN "date order"
  ELSE IF TotalFeeValue(data).nan \/ TotalFeeValue(data).v < 0 THEN "total fee"
  ELSE IF CashValue(data) < 0 THEN "cash"
  ELSE IF OnlineValue(data) < 0 THEN "online"
  ELSE IF SecurityMoneyValue(data) < 0 THEN "security money"
  ELSE IF SubmitShift(data).nan \/ SubmitShift(data).v = 0
            \/ SubmitShift(data).v \notin shifts THEN "shift"
  ELSE ""

\* the first check of handleSubmit that fails, "" when all pass
SubmitError(data, shifts) ==
  IF Trim(data.name) = <<>> THEN "name"
  ELSE IF Trim(data.email) = <<>> THEN "email"
  ELSE IF ~validateEmail(data.email) THEN "email format"
  ELSE IF Trim(data.phone) = <<>> THEN "phone"
  ELSE IF Trim(data.address) = <<>> THEN "address"
  ELSE IF ~Truthy(data.branchId) THEN "branch"
  ELSE IF data.membershipStart = 0 \/ data.membershipEnd = 0 THEN "dates"
  ELSE IF data.membershipStart >= data.membershipEnd THEN "date order"
  ELSE IF TotalFeeValue(data).nan \/ TotalFeeValue(data).v < 0 THEN "total fee"
  ELSE IF CashValue(data) < 0 THEN "cash"
  ELSE IF OnlineValue(data) < 0 THEN "online"
  ELSE IF SecurityMoneyValue(data) < 0 THEN "security money"
  ELSE IF SubmitShift(data).nan \/ SubmitShift(data).v = 0
            \/ SubmitShift(data).v \notin shifts THEN "shift"
  ELSE ""

\* the UpdateStudentPayload built from the form
Payload(data) ==
  [name |-> data.name, email |-> data.email, phone |-> data.phone,
   address |-> data.address, branchId |-> data.branchId,
   membershipStart |-> data.membershipStart, membershipEnd |-> data.membershipEnd,
   totalFee |-> TotalFeeValue(data),
   amountPaid |-> CashValue(data) + OnlineValue(data),
   shiftIds |-> <<SubmitShift(data).v>>, seatId |-> data.seatId,
   cash |-> CashValue(data), online |-> OnlineValue(data),
   securityMoney |-> SecurityMoneyValue(data)]

\* handleSubmit up to the await: the checks, setSubmitting(true), updateStudent
FormSubmit ==
  /\ ~editForm.loading /\ editForm.at = "edit" /\ ~editForm.submitting
  /\ LET error == SubmitError(editForm.formData, editForm.shifts) IN
     editForm' =
       IF error # "" THEN [editForm EXCEPT !.toast = error]
       ELSE [editForm EXCEPT !.submitting = TRUE, !.pending = TRUE,
                             !.call = Payload(editForm.formData)]
  /\ UNCHANGED <<db, handler, expiredPage>>

\* updateStudent resolved: toast, navigate('/students'), finally
UpdateResolved ==
  /\ editForm.pending
  /\ editForm' = [editForm EXCEPT !.pending = FALSE, !.call = NoPayload,
                                  !.toast = "updated", !.at = "students",
                                  !.submitting = FALSE]
  /\ UNCHANGED <<db, handler, expiredPage>>

\* updateStudent rejected: toast, finally
UpdateRejected ==
  /\ editForm.pending
  /\ editForm' = [editForm EXCEPT !.pending = FALSE, !.call = NoPayload,
                                  !.toast = "update failed", !.submitting = FALSE]
  /\ UNCHANGED <<db, handler, expiredPage>>

\* ---------------------------------------------------- ExpiredMemberships
\* a row of the list as getExpiredMemberships returns it: the first student
\* has every field the dialog copies, the others lack email, shift and fee
ListedStudent(id) ==
  IF id = FirstId
    THEN [id |-> id, email |-> <<"a">>, phone |-> <<"1">>, shiftId |-> FirstShift,
          seatId |-> FirstSeat, totalFee |-> <<"1">>]
    ELSE [id |-> id, email |-> <<>>, phone |-> <<"1">>, shiftId |-> 0,
          seatId |-> 0, totalFee |-> <<>>]

\* the lists getExpiredMemberships can answer: none, the first, every student
ExpiredLists == {{}, {FirstId}, Ids}

\* the effect of [selectedShift, selectedStudent], run when one of them was
\* set: a getSeats call starts when both are set
FetchSeatsForShift(g) ==
  IF g.selectedShift # 0 /\ g.selectedStudent # NullId
    THEN [g EXCEPT !.fetching = @ (+) SetToBag({g.selectedShift})]
    ELSE g

\* the effect of []: getExpiredMemberships and getSchedules answered
PageLoaded ==
  /\ expiredPage.loading
  /\ \E list \in ExpiredLists :
       expiredPage' = [expiredPage EXCEPT !.loading = FALSE, !.students = list,
                                          !.shiftOptions = Schedules]
  /\ UNCHANGED <<db, handler, editForm>>

PageLoadFailed ==
  /\ expiredPage.loading
  /\ expiredPage' = [expiredPage EXCEPT !.loading = FALSE]
  /\ UNCHANGED <<db, handler, editForm>>

\* handleRenewClick(student), followed by the effect
RenewClick ==
  /\ BagCardinality(expiredPage.fetching) < MaxFetches
  /\ \E id \in expiredPage.students :
       LET student == ListedStudent(id) IN
       expiredPage' = FetchSeatsForShift(
         [expiredPage EXCEPT !.selectedStudent = id, !.startDate = TRUE, !.endDate = TRUE,
                             !.emailInput = student.email, !.phoneInput = student.phone,
                             !.selectedShift = student.shiftId,
                             !.selectedSeat = student.seatId,
                             !.totalFee = student.totalFee, !.renewDialogOpen = TRUE])
  /\ UNCHANGED <<db, handler, editForm>>

\* onChange of the shift select, followed by the effect
SelectShift ==
  /\ expiredPage.renewDialogOpen
  /\ BagCardinality(expiredPage.fetching) < MaxFetches
  /\ \E shift \in expiredPage.shiftOptions :
       expiredPage' = FetchSeatsForShift([expiredPage EXCEPT !.selectedShift = shift])
  /\ UNCHANGED <<db, handler, editForm>>

\* the calendars and the inputs of the dialog
DialogInput ==
  /\ expiredPage.renewDialogOpen
  /\ \E field \in {"startDate", "endDate", "emailInput", "phoneInput", "totalFee"} :
       \E value \in (IF field \in {"startDate", "endDate"} THEN BOOLEAN
                                                            ELSE {<<>>, <<"1">>})
                       \ {expiredPage[field]} :
         expiredPage' = [expiredPage EXCEPT ![field] = value]
  /\ UNCHANGED <<db, handler, editForm>>

\* the Cancel button and onOpenChange of the dialog
DialogClosed ==
  /\ expiredPage.renewDialogOpen
  /\ expiredPage' = [expiredPage EXCEPT !.renewDialogOpen = FALSE]
  /\ UNCHANGED <<db, handler, editForm>>

\* getSeats answered: setSeatOptions, and the seat is reset when the seat the
\* handler saw selected is not among the seats offered for that shift
SeatOptionsFetched ==
  /\ \E shift \in BagToSet(expiredPage.fetching), offered \in BOOLEAN :
       expiredPage' = [expiredPage EXCEPT
                         !.fetching = @ (-) SetToBag({shift}),
                         !.seatOptions = shift,
                         !.selectedSeat = IF offered THEN @ ELSE 0]
  /\ UNCHANGED <<db, handler, editForm>>

SeatOptionsFailed ==
  /\ \E shift \in BagToSet(expiredPage.fetching) :
       expiredPage' = [expiredPage EXCEPT !.fetching = @ (-) SetToBag({shift})]
  /\ UNCHANGED <<db, handler, editForm>>

\* (variant: the total fee is not among the required fields)
RenewMissingNoFee(g) ==
  \/ g.selectedStudent = NullId \/ ~g.startDate \/ ~g.endDate
  \/ g.emailInput = <<>> \/ g.phoneInput = <<>> \/ g.selectedShift = 0

\* the first line of handleRenewSubmit
RenewMissing(g) ==
  \/ g.selectedStudent = NullId \/ ~g.startDate \/ ~g.endDate
  \/ g.emailInput = <<>> \/ g.phoneInput = <<>> \/ g.selectedShift = 0
  \/ g.totalFee = <<>>

\* handleRenewSubmit up to the await of renewStudent
RenewSubmit ==
  /\ expiredPage.renewDialogOpen
  /\ BagCardinality(expiredPage.renewing) + expiredPage.refetching < MaxFetches
  /\ expiredPage' =
       IF RenewMissing(expiredPage) THEN expiredPage
       ELSE [expiredPage EXCEPT
               !.renewing = @ (+) SetToBag({expiredPage.selectedStudent})]
  /\ UNCHANGED <<db, handler, editForm>>

\* renewStudent resolved: toast, setRenewDialogOpen(false), getExpiredMemberships
RenewResolved ==
  /\ \E id \in BagToSet(expiredPage.renewing) :
       expiredPage' = [expiredPage EXCEPT !.renewing = @ (-) SetToBag({id}),
                                          !.renewDialogOpen = FALSE,
                                          !.refetching = @ + 1]
  /\ UNCHANGED <<db, handler, editForm>>

\* renewStudent rejected: the catch block
RenewRejected ==
  /\ \E id \in BagToSet(expiredPage.renewing) :
       expiredPage' = [expiredPage EXCEPT !.renewing = @ (-) SetToBag({id})]
  /\ UNCHANGED <<db, handler, editForm>>

\* getExpiredMemberships after the renew answered: setStudents
RefetchResolved ==
  /\ expiredPage.refetching > 0
  /\ \E list \in ExpiredLists :
       expiredPage' = [expiredPage EXCEPT !.refetching = @ - 1, !.students = list]
  /\ UNCHANGED <<db, handler, editForm>>

\* getExpiredMemberships after the renew failed: the same catch block
RefetchRejected ==
  /\ expiredPage.refetching > 0
  /\ expiredPage' = [expiredPage EXCEPT !.refetching = @ - 1]
  /\ UNCHANGED <<db, handler, editForm>>

\* ---------------------------------------------------------- request bodies
Body(required, membership_end, seat, shifts, fee, paid, cash, online, security) ==
  [required |-> required, membership_end |-> membership_end,
   seat_id |-> seat, shift_ids |-> shifts,
   total_fee |-> fee, amount_paid |-> paid, cash |-> cash, online |-> online,
   security_money |-> security]

\* seat ids and shift ids a request can name
SeatValues == {Undefined} \cup {Number(n) : n \in Seats}
ShiftValues == {Number(n) : n \in Schedules}
ShiftArrays == UNION {[1..n -> ShiftValues] : n \in 0..MaxShiftIds}

\* requests that vary the seat and the shifts, with no monetary field
SeatBodies ==
  {Body(FALSE, 1, Undefined, <<>>, Undefined, Undefined, Undefined, Undefined, Undefined)}
    \cup {Body(TRUE, 1, seat, shifts, Undefined, Undefined, Undefined, Undefined, Undefined) :
            seat \in SeatValues, shifts \in ShiftArrays}

AnyTime == {TRUE}

\* requests that vary the monetary fields: every field omitted in the same way,
\* one field given, or two related fields given as numbers; and one request
\* that takes a seat
MoneyFields == {"total_fee", "amount_paid", "cash", "online", "security_money"}
OmittedValues == {Undefined, Null, String(<<>>)}
GivenNumbers == {Number(n) : n \in 0..MaxMoney}
MoneyValues ==
  OmittedValues \cup GivenNumbers \cup {Column(n) : n \in 0..MaxMoney}
    \cup {String(<<"a">>), Number(0 - 1)}
RelatedFields ==
  {<<"total_fee", "amount_paid">>, <<"cash", "online">>, <<"amount_paid", "cash">>}
MoneyProfiles ==
  {[g \in MoneyFields |-> o] : o \in OmittedValues}
  \cup {[g \in MoneyFields |-> IF g = f THEN v ELSE Undefined] :
          f \in MoneyFields, v \in MoneyValues}
  \cup {[g \in MoneyFields |-> IF g = ff[1] THEN v1 ELSE IF g = ff[2] THEN v2 ELSE Undefined] :
          ff \in RelatedFields, v1 \in GivenNumbers, v2 \in GivenNumbers}
MoneyBodies ==
  {Body(TRUE, 1, Number(FirstSeat), <<Number(FirstShift)>>,
        Undefined, Undefined, Undefined, Undefined, Undefined)}
    \cup {Body(TRUE, 1, Undefined, <<>>, m.total_fee, m.amount_paid, m.cash, m.online,
               m.security_money) : m \in MoneyProfiles}

\* -------------------------------------------------------- specifications
\* requests are processed one at a time: a single handler slot
Serial == {1}

Next ==
  \E p \in Serial :
    \/ CreateBegin(p, MaxStudents, SeatBodies, AnyTime, TRUE)
    \/ CreateInsertStudent(p)
    \/ CreateInsertSeats(p)
    \/ CreateInsertHistory(p)
    \/ CreateCommit(p)
    \/ UpdateBegin(p, Ids, SeatBodies, AnyTime, TRUE)
    \/ UpdateStudent(p)
    \/ UpdateSeats(p)
    \/ UpdateHistory(p)
    \/ UpdateCommit(p)
    \/ TxFail(p)
    \/ RenewBegin(p, Ids, SeatBodies, TRUE)
    \/ RenewStudent(p)
    \/ RenewSeats(p)
    \/ RenewSeatsFail(p)
    \/ RenewHistory(p)
    \/ DeleteAssignments(p, Ids, TRUE)
    \/ DeleteHistory(p)
    \/ DeleteStudent(p)
    \/ PoolFail(p)
    \/ ConnectFail(p, TRUE)
    \/ RollbackFail(p)
    \/ GetStudent(p, Ids, TRUE)
    \/ GetAssignments(p)
    \/ Return(p)

Spec == Init /\ [][Next]_vars

\* the monetary columns of the first student, requests one at a time
NextMoney ==
  \E p \in Serial :
    \/ CreateBegin(p, FirstId, MoneyBodies, AnyTime, TRUE)
    \/ CreateInsertStudent(p)
    \/ CreateInsertSeats(p)
    \/ CreateInsertHistory(p)
    \/ CreateCommit(p)
    \/ UpdateBegin(p, {FirstId}, MoneyBodies, AnyTime, TRUE)
    \/ UpdateStudent(p)
    \/ UpdateSeats(p)
    \/ UpdateHistory(p)
    \/ UpdateCommit(p)
    \/ TxFail(p)
    \/ RenewBegin(p, {FirstId}, MoneyBodies, TRUE)
    \/ RenewStudent(p)
    \/ RenewSeats(p)
    \/ RenewSeatsFail(p)
    \/ RenewHistory(p)
    \/ DeleteAssignments(p, {FirstId}, TRUE)
    \/ DeleteHistory(p)
    \/ DeleteStudent(p)
    \/ PoolFail(p)
    \/ Return(p)

SpecMoney == Init /\ [][NextMoney]_vars

\* requests in flight together: two handler slots, requests that take one
\* shift of a seat or none
ConcurrentBodies ==
  {Body(TRUE, 1, seat, shifts, Undefined, Undefined, Undefined, Undefined, Undefined) :
     seat \in {Number(FirstSeat)}, shifts \in {<<Number(FirstShift)>>}}

NextConcurrent ==
  \E p \in Procs :
    \/ CreateBegin(p, MaxStudents, ConcurrentBodies, AnyTime, FALSE)
    \/ CreateInsertStudent(p)
    \/ CreateInsertSeats(p)
    \/ CreateInsertHistory(p)
    \/ CreateCommit(p)
    \/ UpdateBegin(p, Ids, ConcurrentBodies, AnyTime, FALSE)
    \/ UpdateStudent(p)
    \/ UpdateSeats(p)
    \/ UpdateHistory(p)
    \/ UpdateCommit(p)
    \/ TxFail(p)
    \/ RenewBegin(p, Ids, ConcurrentBodies, FALSE)
    \/ RenewStudent(p)
    \/ RenewSeats(p)
    \/ RenewSeatsFail(p)
    \/ RenewHistory(p)
    \/ DeleteAssignments(p, Ids, FALSE)
    \/ DeleteHistory(p)
    \/ DeleteStudent(p)
    \/ PoolFail(p)
    \/ ConnectFail(p, FALSE)
    \/ RollbackFail(p)
    \/ Return(p)

SpecConcurrent == Init /\ [][NextConcurrent]_vars

\* requests that vary membership_end, at any time of the day
AnyClock == BOOLEAN
DateBodies ==
  {Body(TRUE, d, Undefined, <<>>, Undefined, Undefined, Undefined, Undefined, Undefined) :
     d \in Days}

\* the dates and the history of the first student, requests one at a time
NextDates ==
  \E p \in Serial :
    \/ CreateBegin(p, FirstId, DateBodies, AnyClock, TRUE)
    \/ CreateInsertStudent(p)
    \/ CreateInsertSeats(p)
    \/ CreateInsertHistory(p)
    \/ CreateCommit(p)
    \/ UpdateBegin(p, {FirstId}, DateBodies, AnyClock, TRUE)
    \/ UpdateStudent(p)
    \/ UpdateSeats(p)
    \/ UpdateHistory(p)
    \/ UpdateCommit(p)
    \/ TxFail(p)
    \/ RenewBegin(p, {FirstId}, DateBodies, TRUE)
    \/ RenewStudent(p)
    \/ RenewSeats(p)
    \/ RenewHistory(p)
    \/ DeleteAssignments(p, {FirstId}, TRUE)
    \/ DeleteHistory(p)
    \/ DeleteStudent(p)
    \/ PoolFail(p)
    \/ Return(p)

SpecDates == Init /\ [][NextDates]_vars

\* requests that name a seat or a shift that is not in seats / schedules
UnknownSeat == NumSeats + 1
UnknownShift == NumShifts + 1
RefBodies ==
  {Body(TRUE, 1, Number(seat), shifts, Undefined, Undefined, Undefined, Undefined, Undefined) :
     seat \in {FirstSeat, UnknownSeat},
     shifts \in {<<Number(FirstShift)>>, <<Number(UnknownShift)>>,
                 <<Number(FirstShift), Number(UnknownShift)>>}}

NextRefs ==
  \E p \in Serial :
    \/ CreateBegin(p, MaxStudents, RefBodies, AnyTime, TRUE)
    \/ CreateInsertStudent(p)
    \/ CreateInsertSeats(p)
    \/ CreateInsertHistory(p)
    \/ CreateCommit(p)
    \/ UpdateBegin(p, Ids, RefBodies, AnyTime, TRUE)
    \/ UpdateStudent(p)
    \/ UpdateSeats(p)
    \/ UpdateHistory(p)
    \/ UpdateCommit(p)
    \/ RenewBegin(p, Ids, RefBodies, TRUE)
    \/ RenewStudent(p)
    \/ RenewSeats(p)
    \/ RenewSeatsFail(p)
    \/ RenewHistory(p)
    \/ TxFail(p)
    \/ DeleteAssignments(p, Ids, TRUE)
    \/ DeleteHistory(p)
    \/ DeleteStudent(p)
    \/ PoolFail(p)
    \/ GetStudent(p, Ids, TRUE)
    \/ GetAssignments(p)
    \/ Return(p)

SpecRefs == Init /\ [][NextRefs]_vars

\* one student with one seat; a delete runs while another request for the same
\* student is in flight, and the tables before each request are recorded
RaceBodies ==
  {Body(TRUE, 1, Number(FirstSeat), <<Number(FirstShift)>>,
        Undefined, Undefined, Undefined, Undefined, Undefined)}

NextRace ==
  \E p \in Procs :
    \/ CreateBegin(p, FirstId, RaceBodies, AnyTime, TRUE)
    \/ CreateInsertStudent(p)
    \/ CreateInsertSeats(p)
    \/ CreateInsertHistory(p)
    \/ CreateCommit(p)
    \/ UpdateBegin(p, {FirstId}, RaceBodies, AnyTime, TRUE)
    \/ UpdateStudent(p)
    \/ UpdateSeats(p)
    \/ UpdateHistory(p)
    \/ UpdateCommit(p)
    \/ RenewBegin(p, {FirstId}, RaceBodies, TRUE)
    \/ RenewStudent(p)
    \/ RenewSeats(p)
    \/ RenewHistory(p)
    \/ DeleteAssignments(p, {FirstId}, TRUE)
    \/ DeleteHistory(p)
    \/ DeleteStudent(p)
    \/ Return(p)

SpecRace == Init /\ [][NextRace]_vars

\* the edit form of one student in one browser
NextEditForm ==
  \/ FormLoaded
  \/ FormLoadFailed
  \/ HandleChange
  \/ SeatsFetched
  \/ SeatsFetchFailed
  \/ FormSubmit
  \/ UpdateResolved
  \/ UpdateRejected

SpecEditForm == Init /\ [][NextEditForm]_vars

\* the expired-memberships page in one browser
NextExpiredPage ==
  \/ PageLoaded
  \/ PageLoadFailed
  \/ RenewClick
  \/ SelectShift
  \/ DialogInput
  \/ DialogClosed
  \/ SeatOptionsFetched
  \/ SeatOptionsFailed
  \/ RenewSubmit
  \/ RenewResolved
  \/ RenewRejected
  \/ RefetchResolved
  \/ RefetchRejected

SpecExpiredPage == Init /\ [][NextExpiredPage]_vars

\* ================================================================== claims
Done(h, route) == h.route = route /\ h.pc = "done"
Succeeded(h) == h.res.status \in {200, 201}
Unchanged(h) == Snapshot = h.pre

\* the (seat, shift) pairs a request names for student id, as rows
NamedRows(body, id) ==
  IF HasSeatAndShifts(seatIdNum(body), shiftIdsNum(body))
    THEN {Assignment(seatIdNum(body), shiftIdsNum(body)[i], id) :
            i \in 1..Len(body.shift_ids)}
    ELSE {}

HeldRows(sa, id) == BagToSet(RowsOf(sa, id))

\* the five monetary columns of a students row; a body that omits all five
Money(r) ==
  <<r.total_fee, r.amount_paid, r.cash, r.online, r.security_money>>

OmitsMoney(body) ==
  /\ Omitted(body.total_fee) /\ Omitted(body.amount_paid) /\ Omitted(body.cash)
  /\ Omitted(body.online) /\ Omitted(body.security_money)

\* C1: with requests processed one at a time, no two seat_assignments rows
\* with the same seat and shift name different students.
C1_OneStudentPerSeatShift ==
  \A r1 \in BagToSet(seat_assignments), r2 \in BagToSet(seat_assignments) :
    (r1.seat_id = r2.seat_id /\ r1.shift_id = r2.shift_id) => r1.student_id = r2.student_id

\* a request was refused because another student holds the pair, and two
\* students hold assignments
C1_Witness ==
  /\ \E p \in Procs : handler[p].pc = "done" /\ handler[p].res = Res(400, "assigned")
  /\ Cardinality({r.student_id : r \in BagToSet(seat_assignments)}) = 2

\* C2: no step of a create handler other than its successful COMMIT changes
\* the committed tables: a create that fails leaves students, seat_assignments
\* and history as they were, and no other request can see its partial inserts.
C2_CreateAllOrNothing ==
  [][\A p \in Procs :
       ( /\ handler[p].route = "create" \/ handler'[p].route = "create"
         /\ handler'[p] # handler[p]
         /\ handler'[p].res.status # 201 )
       => UNCHANGED <<students, seat_assignments, history>>]_vars

\* a create failed after its student row was inserted, while another request
\* was in flight
C2_Witness ==
  \E p \in Procs, q \in Procs :
    /\ Done(handler[p], "create") /\ handler[p].res.status = 500
    /\ handler[p].id # NullId
    /\ q # p /\ InFlight(handler[q])

\* C3: a create whose seat and one of its shifts are already assigned is
\* answered 400 and leaves the three tables as they were.
C3_CreateConflictRejected ==
  \A p \in Procs :
    LET h == handler[p]
        named == NamedRows(h.body, NullId)
        taken == {[seat_id |-> r.seat_id, shift_id |-> r.shift_id] :
                    r \in BagToSet(h.pre.seat_assignments)}
    IN (h.route = "create"
          /\ \E n \in named : [seat_id |-> n.seat_id, shift_id |-> n.shift_id] \in taken)
       => (h.pc = "done" /\ h.res.status = 400 /\ Unchanged(h))

C3_Witness ==
  \E p \in Procs :
    /\ Done(handler[p], "create") /\ handler[p].res = Res(400, "assigned")
    /\ Len(handler[p].body.shift_ids) = MaxShiftIds

\* C4 (as claimed): whenever a write request ends in an error, none of its
\* writes remain: the tables are as they were before the request.
C4_EveryWritePathAtomic ==
  \A p \in Procs :
    (handler[p].pc = "done" /\ ~Succeeded(handler[p])) => Unchanged(handler[p])

C6_DueIsFeeMinusPaid ==
  \A id \in Ids :
    students[id].exists =>
      students[id].due_amount = students[id].total_fee - students[id].amount_paid

C6_Witness ==
  \E p \in Procs :
    /\ handler[p].pc = "done" /\ Succeeded(handler[p])
    /\ handler[p].route \in {"create", "update", "renew"}
    /\ students[handler[p].id].exists
    /\ students[handler[p].id].due_amount < 0

\* C7 (as claimed): every stored student has amount_paid = cash + online.
C7_PaidIsCashPlusOnline ==
  \A id \in Ids :
    students[id].exists =>
      students[id].amount_paid = students[id].cash + students[id].online

\* C8: a successful update whose body omits all five monetary fields leaves
\* the five stored values as they were.
C8_UpdateKeepsOmittedMoney ==
  \A p \in Procs :
    LET h == handler[p] IN
    (Done(h, "update") /\ h.res.status = 200 /\ OmitsMoney(h.body))
      => Money(students[h.id]) = Money(h.pre.students[h.id])

C8_Witness ==
  \E p \in Procs :
    LET h == handler[p] IN
    /\ Done(h, "update") /\ h.res.status = 200 /\ OmitsMoney(h.body)
    /\ h.body.cash # Undefined
    /\ h.pre.students[h.id].cash > 0 /\ h.pre.students[h.id].security_money > 0
    /\ h.pre.students[h.id].total_fee > 0

\* C9: after a successful update the student holds exactly the named
\* (seat, shift) pairs, and none when no seat or no shift is named.
C9_UpdateReplacesSeats ==
  \A p \in Procs :
    LET h == handler[p] IN
    (Done(h, "update") /\ h.res.status = 200)
      => HeldRows(seat_assignments, h.id) = NamedRows(h.body, h.id)

\* the student held a pair before the update that the update does not name
C9_Witness ==
  \E p \in Procs :
    LET h == handler[p] IN
    /\ Done(h, "update") /\ h.res.status = 200
    /\ NamedRows(h.body, h.id) # {}
    /\ HeldRows(h.pre.seat_assignments, h.id) \ NamedRows(h.body, h.id) # {}

\* C10 (as claimed): after a successful renew the student holds exactly the
\* named (seat, shift) pairs, and none when no seat or no shift is named.
C10_RenewReplacesSeats ==
  \A p \in Procs :
    LET h == handler[p] IN
    (Done(h, "renew") /\ h.res.status = 200)
      => HeldRows(seat_assignments, h.id) = NamedRows(h.body, h.id)

Last(rows) == rows[Len(rows)]
Writes == {"create", "update", "renew"}

\* C11: after a successful renew the student's status is 'active' and so is
\* the status of the history row it appended, whatever membership_end is.
C11_RenewForcesActive ==
  \A p \in Procs :
    LET h == handler[p] IN
    (Done(h, "renew") /\ h.res.status = 200) =>
      /\ students[h.id].status = "active"
      /\ students[h.id].membership_end = h.body.membership_end
      /\ history[h.id] # <<>>
      /\ Last(history[h.id]) = [membership_end |-> h.body.membership_end, status |-> "active"]

\* a renew to a date before today succeeded
C11_Witness ==
  \E p \in Procs :
    /\ Done(handler[p], "renew") /\ handler[p].res.status = 200
    /\ handler[p].body.membership_end < Today

\* C12: a successful renew leaves the student with one history row more than
\* before, the earlier rows being unchanged and in the same order.
C12_RenewAppendsHistoryRow ==
  \A p \in Procs :
    LET h == handler[p]
        old == h.pre.history[h.id]
    IN (Done(h, "renew") /\ h.res.status = 200) =>
         /\ Len(history[h.id]) = Len(old) + 1
         /\ SubSeq(history[h.id], 1, Len(old)) = old

\* the student had a history row, and the appended row differs from it
C12_Witness ==
  \E p \in Procs :
    LET h == handler[p] IN
    /\ Done(h, "renew") /\ h.res.status = 200
    /\ h.pre.history[h.id] # <<>>
    /\ Last(history[h.id]) # Last(h.pre.history[h.id])

\* what a delete and a GET that have ended find and answer
C13_DeleteOutcome ==
  \A p \in Procs :
    LET h == handler[p] IN
    /\ (Done(h, "delete") /\ h.res.status = 200) =>
         /\ h.pre.students[h.id].exists
         /\ ~students[h.id].exists
         /\ history[h.id] = <<>>
         /\ HeldRows(seat_assignments, h.id) = {}
    /\ (Done(h, "delete") /\ ~h.pre.students[h.id].exists /\ h.res.msg # "server") =>
         h.res = Res(404, "student")
    /\ (Done(h, "get") /\ ~students[h.id].exists) => h.res = Res(404, "student")

\* a students row that is gone does not come back: an id the sequence has
\* handed out, without a row and not the id of a create still in flight
C13_GoneStaysGone ==
  \A id \in Ids :
    ( /\ id < student_id_seq /\ ~students[id].exists
      /\ \A p \in Procs : ~(InFlight(handler[p]) /\ handler[p].route = "create"
                              /\ handler[p].id = id) )
    => ~students'[id].exists

\* C13: with requests one at a time, after a delete answered 200 the student
\* has no seat_assignments row, no history row and no students row; a delete
\* answers 200 only for a student that existed and, when its statements ran,
\* 404 for one that did not; a GET of a missing student answers 404; and a
\* student row that is gone never comes back.
C13_DeleteRemovesStudent == []C13_DeleteOutcome /\ [][C13_GoneStaysGone]_vars

\* a student with a seat and a history row was deleted
C13_Witness ==
  \E p \in Procs :
    LET h == handler[p] IN
    /\ Done(h, "delete") /\ h.res.status = 200
    /\ HeldRows(h.pre.seat_assignments, h.id) # {}
    /\ h.pre.history[h.id] # <<>>

\* the monetary fields a route reads from the body; a value that is given and
\* parses to NaN or to a negative number
RequestMoney(route) ==
  IF route = "renew" THEN {"total_fee", "cash", "online", "security_money"} ELSE MoneyFields
BadMoney(x) == Truthy(x) /\ (isNaN(parseFloat(x)) \/ Negative(parseFloat(x)))
HasBadMoney(h) == \E f \in RequestMoney(h.route) : BadMoney(h.body[f])

C15_UnknownSeatOrShiftRejected ==
  \A p \in Procs :
    LET h == handler[p]
        seat == seatIdNum(h.body)
        shifts == shiftIdsNum(h.body)
        noSeat == seat \notin Seats
        noShift == \E i \in 1..Len(shifts) : shifts[i] \notin Schedules
    IN (h.pc = "done" /\ h.route \in Writes /\ h.body.required
          /\ (h.route = "create" \/ h.pre.students[h.id].exists)
          /\ HasSeatAndShifts(seat, shifts) /\ (noSeat \/ noShift))
       => /\ h.res.status = 400 /\ Unchanged(h)
          /\ noSeat => h.res.msg = "seat"
          /\ ~noSeat => h.res.msg = "shift"

\* C16 (as claimed): a create or update that has ended has sent a response
\* and does not hold a connection; after a connection or statement failure
\* the response is 500.
C16_ReleasedAndAnswered ==
  \A p \in Procs :
    LET h == handler[p] IN
    (h.pc = "done" /\ h.route \in {"create", "update"})
      => (h.res.status # 0 /\ h.conn # "held")

\* C17: every stored student is listed by exactly one of /active and
\* /expired, every student /expiring-soon lists is listed by /active, and the
\* status the lists report is 'expired' exactly when membership_end is before
\* today.
C17_ListsPartitionByDate ==
  LET ids(list) == {e.id : e \in list} IN
  /\ \A id \in Ids : students[id].exists => (id \in ids(GetActive)) # (id \in ids(GetExpired))
  /\ ids(GetActive) \cup ids(GetExpired) \subseteq {id \in Ids : students[id].exists}
  /\ ids(GetExpiringSoon) \subseteq ids(GetActive)
  /\ \A e \in GetActive \cup GetExpired \cup GetExpiringSoon :
       (e.row.status = "expired") <=> (students[e.id].membership_end < Today)
  /\ \A e \in GetActive : e.row.status = "active"
  /\ \A e \in GetExpired : e.row.status = "expired"

\* the stored status of a listed student differs from the date-derived one
C17_Witness ==
  \E e \in GetExpired : students[e.id].status = "active"

\* C18: the seat/shift check of a write request is settled by the committed
\* seat_assignments rows alone: when no committed row of another student holds
\* a named pair, the request is not refused as assigned, whatever the requests
\* in flight have named or written.
C18_CheckSeesCommittedRowsOnly ==
  [][\A p \in Procs :
       LET h == handler'[p]
           self == IF h.route = "create" THEN NullId ELSE h.id
       IN ( /\ handler[p].pc = "idle" /\ h.pc # "idle" /\ h.route \in Writes
            /\ ConflictAt(seat_assignments, seatIdNum(h.body), shiftIdsNum(h.body), self) = 0 )
          => h.res # Res(400, "assigned")]_vars

\* two requests for different students that named the same pair have both
\* succeeded, and the pair is assigned to both students
C18_Witness ==
  \E p \in Procs, q \in Procs :
    /\ p # q /\ handler[p].pc = "done" /\ handler[q].pc = "done"
    /\ Succeeded(handler[p]) /\ Succeeded(handler[q])
    /\ handler[p].id # handler[q].id
    /\ \E r1 \in HeldRows(seat_assignments, handler[p].id),
          r2 \in HeldRows(seat_assignments, handler[q].id) :
         r1.seat_id = r2.seat_id /\ r1.shift_id = r2.shift_id

\* C19: with requests one at a time, a successful update leaves the student
\* with as many history rows as before, all but the latest unchanged, and the
\* latest, still in last place, holding the values of the update.
C19_UpdateOverwritesLatestHistoryRow ==
  \A p \in Procs :
    LET h == handler[p]
        old == h.pre.history[h.id]
        new == history[h.id]
    IN (Done(h, "update") /\ h.res.status = 200) =>
         /\ Len(new) = Len(old) /\ Len(new) >= 1
         /\ \A i \in 1..(Len(new) - 1) : new[i] = old[i]
         /\ Last(new) = [membership_end |-> h.body.membership_end,
                         status |-> students[h.id].status]

\* the student had two history rows; the latest changed, the first differs
\* from what the update wrote
C19_Witness ==
  \E p \in Procs :
    LET h == handler[p] IN
    /\ Done(h, "update") /\ h.res.status = 200
    /\ Len(h.pre.history[h.id]) >= 2
    /\ Last(history[h.id]) # Last(h.pre.history[h.id])
    /\ history[h.id][1] # Last(history[h.id])

\* C20 (as claimed): right after a successful create or update the stored
\* status equals the status the read endpoints derive from membership_end.
C20_StoredStatusIsDateDerived ==
  \A p \in Procs :
    LET h == handler[p] IN
    (h.pc = "done" /\ h.route \in {"create", "update"} /\ Succeeded(h))
      => students[h.id].status = withCalculatedStatus(students[h.id]).status

Quiet == \A p \in Procs : ~InFlight(handler[p])

\* C21 (as claimed): whenever no request is in flight every student has at
\* least one history row, and no update of an existing student is answered
\* 'No membership history found'.
C21_EveryStudentHasHistory ==
  /\ Quiet => \A id \in Ids : students[id].exists => history[id] # <<>>
  /\ \A p \in Procs :
       (Done(handler[p], "update") /\ handler[p].id # NullId
          /\ handler[p].pre.students[handler[p].id].exists)
         => handler[p].res # Res(404, "history")

\* the value a renew request supplies in a payment field, 0 when omitted
Supplied(x) == IF Omitted(x) THEN 0 ELSE parseFloat(x).v

\* C22: after a successful renew the stored cash and online are the values of
\* the request, 0 for an omitted one, and amount_paid is their sum, whatever
\* was stored before.
C22_RenewStoresSuppliedPayments ==
  \A p \in Procs :
    LET h == handler[p] IN
    (Done(h, "renew") /\ h.res.status = 200) =>
      /\ students[h.id].cash = Supplied(h.body.cash)
      /\ students[h.id].online = Supplied(h.body.online)
      /\ students[h.id].amount_paid = Supplied(h.body.cash) + Supplied(h.body.online)

\* a renew that omits cash replaced a stored payment by 0
C22_Witness ==
  \E p \in Procs :
    LET h == handler[p] IN
    /\ Done(h, "renew") /\ h.res.status = 200
    /\ Omitted(h.body.cash) /\ Omitted(h.body.online)
    /\ h.pre.students[h.id].cash > 0 /\ h.pre.students[h.id].amount_paid > 0
    /\ students[h.id].cash = 0 /\ students[h.id].amount_paid = 0

\* a named pair of the request is held, before the request, by another student
HeldByOther(h) ==
  \E n \in NamedRows(h.body, h.id), r \in BagToSet(h.pre.seat_assignments) :
    r.seat_id = n.seat_id /\ r.shift_id = n.shift_id /\ r.student_id # h.id

NamesKnown(body) ==
  /\ seatIdNum(body) \in Seats
  /\ \A i \in 1..Len(body.shift_ids) : shiftIdsNum(body)[i] \in Schedules

C24_NoDuplicateSeatShiftRows ==
  \A r1 \in BagToSet(seat_assignments), r2 \in BagToSet(seat_assignments) :
    (r1.seat_id = r2.seat_id /\ r1.shift_id = r2.shift_id)
      => (r1 = r2 /\ CopiesIn(r1, seat_assignments) = 1)

\* C25 (as claimed): once a delete of a student that existed when the delete
\* began answered 200 and a renew or an update of the same student has finished
\* too, the student is gone and no seat_assignments row and no history row
\* references it.
C25_DeleteLeavesNoOrphans ==
  \A p \in Procs, q \in Procs :
    LET d == handler[p]
        w == handler[q]
    IN ( /\ Done(d, "delete") /\ d.res.status = 200 /\ d.pre.students[d.id].exists
         /\ Done(w, "renew") \/ Done(w, "update")
         /\ w.id = d.id
         /\ ~students[d.id].exists )
       => /\ HeldRows(seat_assignments, d.id) = {}
          /\ history[d.id] = <<>>

\* C26 (as claimed): a successful renew stores the total_fee and the
\* security_money of the request, 0 included, and keeps the stored value only
\* when the request omits the field.
C26_RenewStoresSuppliedFee ==
  \A p \in Procs :
    LET h == handler[p]
        old == h.pre.students[h.id]
        new == students[h.id]
    IN (Done(h, "renew") /\ h.res.status = 200) =>
         /\ new.total_fee =
              IF Omitted(h.body.total_fee) THEN old.total_fee
              ELSE parseFloat(h.body.total_fee).v
         /\ new.security_money =
              IF Omitted(h.body.security_money) THEN old.security_money
              ELSE parseFloat(h.body.security_money).v

\* the rows of student y in the three tables
RowsAbout(t, y) == <<t.students[y], RowsOf(t.seat_assignments, y), t.history[y]>>

\* C27: while a create, update, renew or delete for student X runs and after
\* it ended, the rows of every other student are as they were before it.
C27_OtherStudentsUntouched ==
  \A p \in Procs :
    LET h == handler[p] IN
    h.route \in Writes \cup {"delete"} =>
      \A y \in Ids \ {h.id} : RowsAbout(Snapshot, y) = RowsAbout(h.pre, y)

\* a delete and a seat-replacing update of one student have ended while the
\* other student held a seat
C27_Witness ==
  \E p \in Procs, y \in Ids :
    LET h == handler[p] IN
    /\ h.pc = "done" /\ h.route \in {"delete", "update"} /\ Succeeded(h)
    /\ h.id # y /\ h.id # NullId
    /\ HeldRows(h.pre.seat_assignments, h.id) # {}
    /\ HeldRows(seat_assignments, y) # {}

\* the shift a form's select shows as selected, 0 for none
SelectedShift(f) ==
  IF parseInt(f.formData.shiftId).nan THEN 0 ELSE parseInt(f.formData.shiftId).v

\* C28 (as claimed): when no seat fetch is pending and none has just failed,
\* the seats offered by the edit form are those of the shift selected in the
\* form, and the seats offered by the renew dialog those of its selected shift.
C28_SeatsOfSelectedShift ==
  /\ ( /\ ~editForm.loading /\ editForm.fetching = EmptyBag
       /\ editForm.toast # "seats" )
     => editForm.seats = SelectedShift(editForm)
  /\ ( /\ expiredPage.fetching = EmptyBag /\ expiredPage.seatOptions # 0
       /\ expiredPage.selectedShift # 0 )
     => expiredPage.seatOptions = expiredPage.selectedShift

\* C29: the payload of every updateStudent call in flight passes every check
\* of the form (non-blank name, phone and address, well-formed email, a
\* branch, both dates with start before end, a total fee that is a number and
\* not negative, cash, online and security money not negative, one shift id
\* and that of a loaded shift) with amountPaid = cash + online; and the
\* submitting flag is set exactly while a call is in flight.
C29_SubmitSendsCheckedPayload ==
  /\ editForm.pending =>
       LET c == editForm.call IN
       /\ Trim(c.name) # <<>> /\ Trim(c.phone) # <<>> /\ Trim(c.address) # <<>>
       /\ validateEmail(c.email)
       /\ c.branchId.t = "number" /\ c.branchId.n # 0
       /\ c.membershipStart # 0 /\ c.membershipEnd # 0
       /\ c.membershipStart < c.membershipEnd
       /\ ~c.totalFee.nan /\ c.totalFee.v >= 0
       /\ c.cash >= 0 /\ c.online >= 0 /\ c.securityMoney >= 0
       /\ c.amountPaid = c.cash + c.online
       /\ Len(c.shiftIds) = 1 /\ c.shiftIds[1] \in editForm.shifts
  /\ editForm.submitting <=> editForm.pending

\* a submit was let through after two fields were changed, and its call failed
C29_Witness ==
  /\ editForm.toast = "update failed" /\ ~editForm.submitting /\ ~editForm.pending
  /\ editForm.edits = MaxEdits /\ editForm.at = "edit"

InFlightRenews(g) == BagCardinality(g.renewing)

\* C30: a renewStudent call starts only when student, both dates, email,
\* phone, shift and total fee are set; the step in which a call fails changes
\* neither the dialog nor the list; the list is fetched again only in the step
\* in which a call succeeds, which closes the dialog; and after the first load
\* the list changes only when that fetch answers.
C30_RenewGatedDialogKeptOnFailure ==
  [][LET g == expiredPage
         n == expiredPage'
     IN /\ InFlightRenews(n) > InFlightRenews(g) =>
             /\ g.selectedStudent # NullId /\ g.startDate /\ g.endDate
             /\ g.emailInput # <<>> /\ g.phoneInput # <<>>
             /\ g.selectedShift # 0 /\ g.totalFee # <<>>
        /\ (InFlightRenews(n) < InFlightRenews(g) /\ n.refetching = g.refetching) =>
             (n.renewDialogOpen = g.renewDialogOpen /\ n.students = g.students)
        /\ n.refetching > g.refetching =>
             (InFlightRenews(n) < InFlightRenews(g) /\ ~n.renewDialogOpen)
        /\ (g.renewDialogOpen /\ ~n.renewDialogOpen /\ n.renewing # g.renewing) =>
             n.refetching > g.refetching
        /\ (n.students # g.students /\ ~g.loading) => n.refetching < g.refetching
    ]_vars

\* a renew call for a student whose row lacked email, shift and fee succeeded
\* and closed the dialog; the list is being fetched again
C30_Witness ==
  /\ expiredPage.refetching > 0 /\ ~expiredPage.renewDialogOpen
  /\ expiredPage.selectedStudent \notin {NullId, FirstId}
  /\ expiredPage.seatOptions # 0

====
